---- MODULE Spec2Model ----
(***************************************************************************)
(* CircularLogger (src/CircularLogger.h, src/CircularLogger.cpp): a file   *)
(* logger that appends timestamped lines to the active log file, starts a  *)
(* new file when the clock reaches nextRotationTime, and deletes the       *)
(* oldest files of the log directory when it does so.                      *)
(*                                                                         *)
(* Modelling conventions                                                   *)
(*  - time_t is an integer number of seconds; localtime_s is taken in a    *)
(*    zone without offset or daylight saving, so a std::tm is the record   *)
(*    [day, hour, min, sec] and mktime is its inverse (it normalises       *)
(*    fields that are out of range).                                       *)
(*  - put_time("%Y-%m-%d") is a bijection of the day number; a file name   *)
(*    is the tuple of the numbers put_time prints: <<day>>, <<day, H>>,    *)
(*    <<day, H, M>> or <<day, H, M, S>>.  A file of the directory that no  *)
(*    sink wrote has a name <<-i>>.  The empty path is <<>>.               *)
(*  - a config file is "absent", "malformed" (not JSON), "nonobject" (JSON *)
(*    but no object) or a record of its three fields, each a value of      *)
(*    the right type, Missing or WrongType.                                *)
(*  - an int member that no code assigned holds an indeterminate value: a  *)
(*    nondeterministic choice in Indeterminate.                            *)
(*  - the file system accepts every write, and last_write_time of a file   *)
(*    is the clock at its last append.                                     *)
(***************************************************************************)
EXTENDS Integers, Sequences, FiniteSets, TLC

VARIABLES
    status,            \* "unconstructed" | "ready" | "threw" | "undefined"
                       \*   | "saved" | "loaded"
    configFile,        \* content of the file at configPath
    loggingType,       \* CircularLogger::loggingType
    frequency,         \* CircularLogger::frequency
    maxEntries,        \* CircularLogger::maxEntries
    currentLogFile,    \* CircularLogger::currentLogFile
    nextRotationTime,  \* CircularLogger::nextRotationTime
    dirExists,         \* whether logDirectory exists
    logDir,            \* regular files of logDirectory: name -> [mtime, lines]
    undeletable,       \* names of the files fs::remove fails on
    configAtStart,     \* history: configFile when the constructor started
    calls,             \* history: number of log() calls that returned
    written,           \* history: [t, path, line] of each returned call of the sink
    restarts,          \* history: number of sinks constructed after the first
    last,              \* history: what the most recent log() call did
    prev               \* history: what the log() call before it did

vars == <<status, configFile, loggingType, frequency, maxEntries, currentLogFile,
          nextRotationTime, dirExists, logDir, undeletable, configAtStart,
          calls, written, restarts, last, prev>>

(***************************************************************************)
(* Bounds                                                                  *)
(***************************************************************************)
MaxTick == 4
MaxCalls == 3
MaxInitFiles == 3
MaxRestarts == 1

\* The instants log() is called at: seconds 0 and 1 of minutes 0 and 1 of
\* the hours 0, 1, ... of day 0.
Instant(i) == (i % 2) + 60 * ((i \div 2) % 2) + 3600 * (i \div 4)
Times == { Instant(i) : i \in 0..MaxTick }

(***************************************************************************)
(* std::tm, localtime_s, mktime                                            *)
(***************************************************************************)
localtime(t) ==
    [day  |-> t \div 86400,
     hour |-> (t % 86400) \div 3600,
     min  |-> (t % 3600) \div 60,
     sec  |-> t % 60]

mktime(tm) == tm.day * 86400 + tm.hour * 3600 + tm.min * 60 + tm.sec

(***************************************************************************)
(* The config file and loadConfig / saveDefaultConfig                      *)
(***************************************************************************)
Value(v) == [kind |-> "value", val |-> v]
MissingString == [kind |-> "missing", val |-> ""]
MissingInt == [kind |-> "missing", val |-> 0]
WrongTypeString == [kind |-> "wrongtype", val |-> ""]
WrongTypeInt == [kind |-> "wrongtype", val |-> 0]

Document(kind, lt, fr, me) ==
    [kind |-> kind, loggingType |-> lt, frequency |-> fr, maxEntries |-> me]

Absent == Document("absent", MissingString, MissingInt, MissingInt)
Malformed == Document("malformed", MissingString, MissingInt, MissingInt)
NonObject == Document("nonobject", MissingString, MissingInt, MissingInt)

\* What a config file may hold before the sink is constructed.
LoggingTypeFields ==
    { Value(v) : v \in {"hour", "minute", "second", "day"} }
        \cup {MissingString, WrongTypeString}
FrequencyFields ==
    { Value(v) : v \in {-1, 0, 1, 2, 5} } \cup {MissingInt, WrongTypeInt}
MaxEntriesFields ==
    { Value(v) : v \in {-1, 0, 1, 3, 12} } \cup {MissingInt, WrongTypeInt}
ConfigFiles ==
    {Absent, Malformed, NonObject}
        \cup { Document("object", lt, fr, me) :
                 lt \in LoggingTypeFields, fr \in FrequencyFields,
                 me \in MaxEntriesFields }

\* The values an int member that was never assigned may hold.
Indeterminate == {-1, 0, 2}

\* saveDefaultConfig writes this document over the file at configPath and
\* assigns no member.
saveDefaultConfigSwapped ==
    Document("object", Value("second"), Value(12), Value(5))

saveDefaultConfig ==
    Document("object", Value("second"), Value(5), Value(12))

\* basic_json::value(key, default): the default for a missing key, the
\* value for a key of the default's type; it throws for any other type.
throws(field) == field.kind = "wrongtype"

valueIgnoringFile(field, default) == default

value(field, default) ==
    IF field.kind = "missing" THEN default ELSE field.val

Members(lt, fr, me, file) ==
    [loggingType |-> lt, frequency |-> fr, maxEntries |-> me, configFile |-> file]

\* loadConfig on the members m (as they are when it is called) and the file
\* at configPath: the members and the file when it returns.  The three
\* assignments run in order inside the try block, so a throwing value()
\* leaves the later members as they were and the earlier ones assigned.
loadConfig(m) ==
    LET file == m.configFile IN
    IF file.kind = "absent"
    THEN Members(m.loggingType, m.frequency, m.maxEntries, saveDefaultConfig)
    ELSE IF file.kind # "object" \/ throws(file.loggingType)
    THEN Members(m.loggingType, m.frequency, m.maxEntries, saveDefaultConfig)
    ELSE LET lt == value(file.loggingType, "second") IN
         IF throws(file.frequency)
         THEN Members(lt, m.frequency, m.maxEntries, saveDefaultConfig)
         ELSE LET fr == value(file.frequency, 5) IN
              IF throws(file.maxEntries)
              THEN Members(lt, fr, m.maxEntries, saveDefaultConfig)
              ELSE Members(lt, fr, value(file.maxEntries, 12), file)

(***************************************************************************)
(* File names and rotation instants                                        *)
(***************************************************************************)
\* The name is the date, then the fields the logging type asks for; any
\* other logging type (the empty string too) gives the date alone.
generateLogFileName(timeInfo, lt) ==
    IF lt = "hour" THEN <<timeInfo.day, timeInfo.hour>>
    ELSE IF lt = "minute" THEN <<timeInfo.day, timeInfo.hour, timeInfo.min>>
    ELSE IF lt = "second"
         THEN <<timeInfo.day, timeInfo.hour, timeInfo.min, timeInfo.sec>>
    ELSE <<timeInfo.day>>

calculateNextRotationTimeNow(currentTime, lt, freq) == currentTime

calculateNextRotationTime(currentTime, lt, freq) ==
    LET nextTime == localtime(currentTime) IN
    IF lt = "hour"
    THEN mktime([nextTime EXCEPT !.hour = @ + freq, !.min = 0, !.sec = 0])
    ELSE IF lt = "minute"
    THEN mktime([nextTime EXCEPT !.min = @ + freq, !.sec = 0])
    ELSE IF lt = "second"
    THEN mktime([nextTime EXCEPT !.sec = @ + freq])
    ELSE mktime(nextTime)

(***************************************************************************)
(* rotateLogs                                                              *)
(***************************************************************************)
\* The comparator handed to std::sort.
comesBeforeNewestFirst(a, b, dir) == dir[a].mtime > dir[b].mtime

comesBefore(a, b, dir) == dir[a].mtime < dir[b].mtime

\* The orders std::sort may leave the listed files in: every permutation in
\* which no file comes before one the comparator puts before it (files of
\* equal modification time end in either order).
RECURSIVE sorted(_, _)
sorted(files, dir) ==
    IF files = {} THEN { <<>> }
    ELSE UNION { { <<f>> \o rest : rest \in sorted(files \ {f}, dir) } :
                 f \in { f \in files :
                           \A g \in files : ~comesBefore(g, f, dir) } }

\* logFiles.size() >= maxEntries: the int is converted to size_t, so a
\* negative maxEntries is a number no vector size reaches.
atOrAboveStrict(size, max) == max >= 0 /\ size > max

atOrAbove(size, max) == max >= 0 /\ size >= max

\* An if in place of the while.
removeOldestOnce(logFiles, max, locked) ==
    IF atOrAbove(Len(logFiles), max) /\ logFiles # <<>>
    THEN IF Head(logFiles) \in locked
         THEN [removed |-> {}, failed |-> {Head(logFiles)}, undefined |-> FALSE]
         ELSE [removed |-> {Head(logFiles)}, failed |-> {}, undefined |-> FALSE]
    ELSE [removed |-> {}, failed |-> {}, undefined |-> FALSE]

\* The while loop on the sorted vector: the files it removes, the file on
\* which fs::remove fails (the overload without error_code throws
\* filesystem_error, which nothing in rotateLogs or log catches, so the loop
\* ends there), and whether it reaches front() and erase(begin()) of an
\* empty vector, which is undefined behaviour.
RECURSIVE removeOldest(_, _, _)
removeOldest(logFiles, max, locked) ==
    IF atOrAbove(Len(logFiles), max)
    THEN IF logFiles = <<>>
         THEN [removed |-> {}, failed |-> {}, undefined |-> TRUE]
         ELSE IF Head(logFiles) \in locked
         THEN [removed |-> {}, failed |-> {Head(logFiles)}, undefined |-> FALSE]
         ELSE LET rest == removeOldest(Tail(logFiles), max, locked) IN
              [removed |-> {Head(logFiles)} \cup rest.removed,
               failed |-> rest.failed,
               undefined |-> rest.undefined]
    ELSE [removed |-> {}, failed |-> {}, undefined |-> FALSE]

without(dir, names) == [f \in DOMAIN dir \ names |-> dir[f]]

(***************************************************************************)
(* log                                                                     *)
(***************************************************************************)
\* std::ofstream with std::ios::trunc in place of std::ios::app.
appendTruncating(dir, path, t, line) ==
    IF path = <<>> THEN dir
    ELSE [f \in DOMAIN dir \cup {path} |->
            IF f = path THEN [mtime |-> t, lines |-> <<line>>] ELSE dir[f]]

\* std::ofstream(path, std::ios::app) << line: the empty path cannot be
\* opened, and nothing is written.
append(dir, path, t, line) ==
    IF path = <<>> THEN dir
    ELSE IF path \in DOMAIN dir
    THEN [dir EXCEPT ![path] = [mtime |-> t, lines |-> Append(@.lines, line)]]
    ELSE [f \in DOMAIN dir \cup {path} |->
            IF f = path THEN [mtime |-> t, lines |-> <<line>>] ELSE dir[f]]

NoFiles == [f \in {} |-> [mtime |-> 0, lines |-> <<>>]]

\* A record of what a log() call of the sink did: its timestamp t, the
\* file name generated for t, whether it rotated, the files its sweep
\* removed, the directory before the call and after the sweep, the path and
\* the line it appended, the timestamp of the sink's latest rotation, and
\* the file whose removal failed (the call then left by an exception).
\* NoCall stands for the call that has not happened.
NoCall ==
    [t |-> -1, name |-> <<>>, rotated |-> FALSE, removed |-> {},
     before |-> NoFiles, swept |-> NoFiles, path |-> <<>>, line |-> <<>>,
     rotation |-> -1, failed |-> {}]

\* if (nowTime >= nextRotationTime)
needsRotationAlways(nowTime, next) == TRUE

needsRotation(nowTime, next) == nowTime >= next

\* log(message) called when the clock shows t.  The k-th call of a run logs
\* the message k.  A call ends in one of three ways: it returns; the sweep
\* throws, and the exception leaves log() before anything is assigned or
\* appended; the sweep runs into undefined behaviour.
log(t) ==
    /\ status = "ready"
    /\ LET timeInfo == localtime(t)
           logFileName == generateLogFileName(timeInfo, loggingType)
           rotate == needsRotation(t, nextRotationTime)
           message == calls + 1
           line == <<t, message>>
       IN \E logFiles \in (IF rotate THEN sorted(DOMAIN logDir, logDir)
                                     ELSE { <<>> }) :
            LET sweep == IF rotate
                         THEN removeOldest(logFiles, maxEntries, undeletable)
                         ELSE [removed |-> {}, failed |-> {},
                               undefined |-> FALSE]
                swept == without(logDir, sweep.removed)
                path == IF rotate THEN logFileName ELSE currentLogFile
                call == [t |-> t, name |-> logFileName,
                         rotated |-> rotate, removed |-> sweep.removed,
                         before |-> logDir, swept |-> swept,
                         path |-> path, line |-> line,
                         rotation |-> IF rotate THEN t ELSE last.rotation,
                         failed |-> sweep.failed]
            IN IF sweep.undefined
               THEN /\ status' = "undefined"
                    /\ logDir' = swept
                    /\ UNCHANGED <<currentLogFile, nextRotationTime, calls,
                                   written, last, prev>>
               ELSE IF sweep.failed # {}
               THEN /\ status' = "threw"
                    /\ logDir' = swept
                    /\ prev' = last
                    /\ last' = [call EXCEPT !.rotation = last.rotation]
                    /\ UNCHANGED <<currentLogFile, nextRotationTime, calls,
                                   written>>
               ELSE /\ status' = status
                    /\ currentLogFile' = path
                    /\ nextRotationTime' =
                         IF rotate
                         THEN calculateNextRotationTime(t, loggingType, frequency)
                         ELSE nextRotationTime
                    /\ logDir' = append(swept, path, t, line)
                    /\ calls' = calls + 1
                    /\ written' = Append(written, [t |-> t, path |-> path, line |-> line])
                    /\ prev' = last
                    /\ last' = call
    /\ UNCHANGED <<configFile, loggingType, frequency, maxEntries, dirExists,
                   undeletable, configAtStart, restarts>>

(***************************************************************************)
(* The constructor                                                         *)
(***************************************************************************)
\* CircularLogger(configPath): the members start as their initialisers
\* leave them (loggingType empty, frequency and maxEntries indeterminate),
\* then loadConfig and ensureLogDirectory run.
constructed ==
    { loadConfig(Members("", f0, m0, configFile)) :
        f0 \in Indeterminate, m0 \in Indeterminate }

constructor(m) ==
    /\ loggingType' = m.loggingType
    /\ frequency' = m.frequency
    /\ maxEntries' = m.maxEntries
    /\ configFile' = m.configFile
    /\ configAtStart' = configFile
    /\ currentLogFile' = <<>>
    /\ nextRotationTime' = 0
    /\ dirExists' = TRUE
    /\ status' = "ready"
    /\ written' = <<>>
    /\ last' = NoCall
    /\ prev' = NoCall
    /\ UNCHANGED <<logDir, undeletable>>

Construct ==
    /\ status = "unconstructed"
    /\ \E m \in constructed : constructor(m)
    /\ UNCHANGED <<calls, restarts>>

\* The process ends and a new sink is constructed over the same config file
\* and log directory.
Restart ==
    /\ status = "ready"
    /\ restarts < MaxRestarts
    /\ \E m \in constructed : constructor(m)
    /\ restarts' = restarts + 1
    /\ UNCHANGED calls

Log == \E t \in Times : calls < MaxCalls /\ log(t)

(***************************************************************************)
(* Specification of a sink that logs                                       *)
(***************************************************************************)
\* The config files the logging runs start from.
LogConfigFiles ==
    {Absent}
        \cup { Document("object", Value(lt), Value(fr), Value(me)) :
                 lt \in {"hour", "minute", "second"}, fr \in {0, 1, 5},
                 me \in {0, 1, 2} }

\* The i-th file that the directory holds before any sink wrote to it.
foreign(i) == <<-i>>

initialDir(k) ==
    [f \in { foreign(i) : i \in 1..k } |->
        [mtime |-> Instant(-f[1] - 1), lines |-> <<>>]]

InitCommon ==
    /\ status = "unconstructed"
    /\ loggingType = ""
    /\ frequency = 0
    /\ maxEntries = 0
    /\ currentLogFile = <<>>
    /\ nextRotationTime = 0
    /\ calls = 0
    /\ written = <<>>
    /\ restarts = 0
    /\ last = NoCall
    /\ prev = NoCall

Init ==
    /\ InitCommon
    /\ configFile \in LogConfigFiles
    /\ configAtStart = configFile
    /\ \E k \in 0..MaxInitFiles :
         /\ logDir = initialDir(k)
         /\ dirExists \in (IF k = 0 THEN BOOLEAN ELSE {TRUE})
         /\ undeletable \in (IF k = 0 THEN {{}} ELSE {{}, {foreign(1)}})

Next == Construct \/ Log \/ Restart

Spec == Init /\ [][Next]_vars

(***************************************************************************)
(* Specification of the configuration methods alone                        *)
(***************************************************************************)
InitConfig ==
    /\ InitCommon
    /\ configFile \in ConfigFiles
    /\ configAtStart = configFile
    /\ logDir = NoFiles
    /\ undeletable = {}
    /\ dirExists = FALSE

\* saveDefaultConfig called on a sink whose members are as the initialisers
\* leave them.
SaveDefaults ==
    /\ status = "unconstructed"
    /\ status' = "saved"
    /\ configFile' = saveDefaultConfig
    /\ configAtStart' = configFile
    /\ loggingType' = ""
    /\ frequency' \in Indeterminate
    /\ maxEntries' \in Indeterminate
    /\ UNCHANGED <<currentLogFile, nextRotationTime, dirExists, logDir,
                   undeletable, calls, written, restarts, last, prev>>

\* loadConfig called after it.
LoadAfterSave ==
    /\ status = "saved"
    /\ status' = "loaded"
    /\ LET m == loadConfig(Members(loggingType, frequency, maxEntries, configFile))
       IN /\ loggingType' = m.loggingType
          /\ frequency' = m.frequency
          /\ maxEntries' = m.maxEntries
          /\ configFile' = m.configFile
    /\ UNCHANGED <<currentLogFile, nextRotationTime, dirExists, logDir,
                   undeletable, calls, written, restarts, last, prev,
                   configAtStart>>

NextConfig == Construct \/ SaveDefaults \/ LoadAfterSave

SpecConfig == InitConfig /\ [][NextConfig]_vars

(***************************************************************************)
(* Properties                                                              *)
(***************************************************************************)
Recognised == {"hour", "minute", "second"}
Returned == status = "ready" /\ last.t # -1
TwoCalls == Returned /\ prev.t # -1
Size(dir) == Cardinality(DOMAIN dir)
DistinctTimes(dir) ==
    \A f, g \in DOMAIN dir : f # g => dir[f].mtime # dir[g].mtime
\* The c files of dir that were modified first (modification times distinct).
Oldest(dir, c) ==
    { f \in DOMAIN dir :
        Cardinality({ g \in DOMAIN dir : dir[g].mtime < dir[f].mtime }) < c }
Min(a, b) == IF a <= b THEN a ELSE b

\* C1: with maxEntries >= 1, after every log() call that returned the log
\* directory holds at most maxEntries files, whatever it held before.
C1_AtMostMaxEntries ==
    (Returned /\ maxEntries >= 1) => Size(logDir) <= maxEntries

C1_Witness ==
    /\ Returned
    /\ maxEntries >= 1
    /\ Size(last.before) > maxEntries
    /\ Size(logDir) = maxEntries

\* C2 (as claimed): two successive log() calls with t1 <= t2 and equal
\* generated file names append to the same path, and the second does not
\* sweep.
C2_SameNameNoSweep ==
    (TwoCalls /\ prev.t <= last.t /\ prev.name = last.name)
        => (last.path = prev.path /\ ~last.rotated)

Unit == IF loggingType = "hour" THEN 3600
        ELSE IF loggingType = "minute" THEN 60 ELSE 1
Deadline(t0) ==
    IF loggingType \in Recognised
    THEN (t0 \div Unit) * Unit + frequency * Unit
    ELSE t0

C5_RemovesNMinusK ==
    (Returned /\ last.rotated /\ DistinctTimes(last.before)
       /\ maxEntries >= 1 /\ maxEntries < Size(last.before))
        => last.removed = Oldest(last.before, Size(last.before) - maxEntries)

\* C5 (amended): such a sweep removes exactly the n - k + 1 oldest files.
C5_RemovesNMinusKPlusOne ==
    (Returned /\ last.rotated /\ DistinctTimes(last.before)
       /\ maxEntries >= 1 /\ maxEntries < Size(last.before))
        => last.removed = Oldest(last.before, Size(last.before) - maxEntries + 1)

C5_Witness ==
    /\ Returned
    /\ last.rotated
    /\ DistinctTimes(last.before)
    /\ maxEntries >= 2
    /\ maxEntries < Size(last.before)
    /\ Cardinality(last.removed) >= 2

\* C6: with maxEntries >= 1, a sweep over n files leaves exactly
\* min(n, maxEntries - 1) of them, unchanged, and none of them was modified
\* before a file it removed.
C6_KeepsNewest ==
    (Returned /\ last.rotated /\ maxEntries >= 1)
        => /\ Size(last.swept) = Min(Size(last.before), maxEntries - 1)
           /\ DOMAIN last.swept = DOMAIN last.before \ last.removed
           /\ last.removed \subseteq DOMAIN last.before
           /\ \A f \in DOMAIN last.swept : last.swept[f] = last.before[f]
           /\ \A f \in DOMAIN last.swept : \A g \in last.removed :
                last.before[g].mtime <= last.before[f].mtime

C6_Witness ==
    /\ Returned
    /\ last.rotated
    /\ maxEntries >= 2
    /\ Cardinality(last.removed) >= 2
    /\ Size(last.swept) >= 1

(***************************************************************************)
(* Properties of the configuration                                         *)
(***************************************************************************)
Constructed == status = "ready" /\ restarts = 0
Unparsable(file) ==
    \/ file.kind # "object"
    \/ file.loggingType.kind = "wrongtype"
    \/ file.frequency.kind = "wrongtype"
    \/ file.maxEntries.kind = "wrongtype"
DefaultsInUse == loggingType = "second" /\ frequency = 5 /\ maxEntries = 12
DefaultsOnDisk ==
    /\ configFile.kind = "object"
    /\ configFile.loggingType = [kind |-> "value", val |-> "second"]
    /\ configFile.frequency = [kind |-> "value", val |-> 5]
    /\ configFile.maxEntries = [kind |-> "value", val |-> 12]

\* C7 (as claimed): constructed over a config file that is missing or does
\* not parse (a field of the wrong type included), the sink uses the
\* policy {second, 5, 12} and the config file holds those defaults.
C7_DefaultsAfterBadConfig ==
    (Constructed /\ Unparsable(configAtStart))
        => (DefaultsInUse /\ DefaultsOnDisk)

\* C8: constructed over a config document that parses and lacks any subset
\* of the three fields, the sink uses the default for each missing field
\* and the document's value for each present one, and the file is left as
\* it was.
C8_MissingFieldsDefault ==
    (Constructed /\ ~Unparsable(configAtStart))
        => /\ loggingType = (IF configAtStart.loggingType.kind = "missing"
                             THEN "second" ELSE configAtStart.loggingType.val)
           /\ frequency = (IF configAtStart.frequency.kind = "missing"
                           THEN 5 ELSE configAtStart.frequency.val)
           /\ maxEntries = (IF configAtStart.maxEntries.kind = "missing"
                            THEN 12 ELSE configAtStart.maxEntries.val)
           /\ configFile = configAtStart

C8_Witness ==
    /\ Constructed
    /\ ~Unparsable(configAtStart)
    /\ configAtStart.loggingType.kind = "missing"
    /\ configAtStart.frequency.kind = "missing"
    /\ configAtStart.maxEntries = [kind |-> "value", val |-> 3]
    /\ loggingType = "second"
    /\ maxEntries = 3

\* C9: whatever the config path held, saveDefaultConfig followed by
\* loadConfig leaves the policy {second, 5, 12} in memory.
C9_SaveThenLoad ==
    status = "loaded" => DefaultsInUse

C9_Witness ==
    /\ status = "loaded"
    /\ configAtStart.kind = "object"
    /\ configAtStart.frequency = [kind |-> "value", val |-> 2]
    /\ frequency = 5

\* C10 (as claimed): after construction over any config file, frequency >= 1,
\* maxEntries >= 1 and the logging type is hour, minute or second.
C10_PolicyValid ==
    Constructed
        => (frequency >= 1 /\ maxEntries >= 1 /\ loggingType \in Recognised)

(***************************************************************************)
(* Specification of the scenario of four calls at distinct seconds         *)
(***************************************************************************)
MaxSecond == 15
MaxScenarioCalls == 4

ScenarioConfig == Document("object", Value("second"), Value(5), Value(3))

InitScenario ==
    /\ InitCommon
    /\ configFile = ScenarioConfig
    /\ configAtStart = configFile
    /\ logDir = NoFiles
    /\ undeletable = {}
    /\ dirExists \in BOOLEAN

\* log() called at a second later than that of the call before.
ScenarioLog ==
    \E t \in 0..MaxSecond :
        calls < MaxScenarioCalls /\ t > last.t /\ log(t)

NextScenario == Construct \/ ScenarioLog

SpecScenario == InitScenario /\ [][NextScenario]_vars

(***************************************************************************)
(* Properties of failing sweeps, scenarios and frames                      *)
(***************************************************************************)
Calls == Len(written)
NonDecreasing(i, j) == \A k \in i..(j - 1) : written[k].t <= written[k + 1].t
SameMinute(a, b) == a \div 60 = b \div 60
InOrder(lines, a, b) ==
    \E i, j \in 1..Len(lines) : i < j /\ lines[i] = a /\ lines[j] = b
LastLineOf(path, line) ==
    /\ path \in DOMAIN logDir
    /\ Len(logDir[path].lines) >= 1
    /\ logDir[path].lines[Len(logDir[path].lines)] = line

\* C11 (as claimed): when the removal of a file fails during the sweep of a
\* log() call, the call still returns and its line is appended.
C11_DeletionFailureSwallowed ==
    (last.t # -1 /\ last.failed # {})
        => (status = "ready" /\ LastLineOf(last.path, last.line))

C14_SweepOnlyOnRotation ==
    [][ (status = "ready" /\ calls' = calls + 1) =>
          /\ last'.t < nextRotationTime =>
               /\ ~last'.rotated
               /\ last'.removed = {}
               /\ currentLogFile' = currentLogFile
               /\ nextRotationTime' = nextRotationTime
               /\ \A f \in DOMAIN logDir \ {currentLogFile} :
                    f \in DOMAIN logDir' /\ logDir'[f] = logDir[f]
          /\ last'.removed # {} => last'.t >= nextRotationTime
          /\ DOMAIN logDir' = (DOMAIN logDir \ last'.removed) \cup {last'.path}
          /\ logDir'[last'.path].lines =
               (IF last'.path \in DOMAIN logDir \ last'.removed
                THEN logDir[last'.path].lines ELSE <<>>) \o <<last'.line>>
      ]_vars

C14_Witness ==
    /\ TwoCalls
    /\ prev.rotated
    /\ prev.removed # {}
    /\ ~last.rotated
    /\ last.t < nextRotationTime

\* C15: once the sink is constructed, no log() call changes loggingType,
\* frequency or maxEntries, and the active path changes only in a call that
\* returns with a timestamp at or after nextRotationTime, to the file named
\* after that timestamp.
C15_PolicyFrozen ==
    [][ (status = "ready" /\ restarts' = restarts) =>
          /\ loggingType' = loggingType
          /\ frequency' = frequency
          /\ maxEntries' = maxEntries
          /\ currentLogFile' # currentLogFile =>
               /\ calls' = calls + 1
               /\ last'.t >= nextRotationTime
               /\ currentLogFile' = last'.name
      ]_vars

C15_Witness ==
    /\ TwoCalls
    /\ last.rotated
    /\ currentLogFile # prev.path
    /\ currentLogFile = last.name

\* C16 (as claimed): the loop of the sweep ends for every maxEntries that
\* loadConfig can leave, having removed no more files than were listed.
C16_SweepTerminates ==
    /\ status # "undefined"
    /\ last.removed \subseteq DOMAIN last.before

\* The first instant after the hour, minute or second of t.
BucketEnd(t) == (t \div Unit) * Unit + Unit

\* C17: under a recognised logging type and frequency >= 1, a rotation at t
\* leaves nextRotationTime above t and at or beyond the end of t's bucket;
\* and while the clock has not moved backward, the file a rotation selects
\* is not one an earlier call of the sink wrote to.
C17_RotationAdvances ==
    (Returned /\ last.rotated /\ loggingType \in Recognised /\ frequency >= 1)
        => /\ nextRotationTime > last.t
           /\ nextRotationTime >= BucketEnd(last.t)
           /\ NonDecreasing(1, Calls)
                => \A i \in 1..(Calls - 1) : written[i].path # last.name

C17_Witness ==
    /\ TwoCalls
    /\ last.rotated
    /\ prev.rotated
    /\ loggingType \in Recognised
    /\ frequency >= 1
    /\ NonDecreasing(1, Calls)
    /\ SameMinute(prev.t, last.t)

\* C18 (as claimed): with maxEntries >= 1, the sweep of a rotating log()
\* call does not remove the file the call appends to, and the lines that
\* file held are still there afterwards.
C18_KeepsActiveFile ==
    (Returned /\ last.rotated /\ maxEntries >= 1)
        => /\ last.path \notin last.removed
           /\ last.path \in DOMAIN last.before
                => logDir[last.path].lines =
                     last.before[last.path].lines \o <<last.line>>
====
